---- MODULE Spec2Model ----
(***************************************************************************)
(* Model of source_twilio/streams.py: the Twilio stream classes            *)
(* (TwilioStream, IncrementalTwilioStream, TwilioNestedStream and the      *)
(* concrete registry), run by the CDK's read loop against a mocked API.    *)
(*                                                                         *)
(* Texts.  A URL is a sequence of lexemes (strings); "?", "#", "&" and "=" *)
(* are lexemes of their own.  A date text is a sequence of numbers, its    *)
(* fields in the order the text writes them, so that Python's string       *)
(* comparison of two texts is the lexicographic order of the sequences:    *)
(*   ISO 8601 date-time  <<Y, m, d, H, M, S>>                              *)
(*   ISO 8601 date       <<Y, m, d>>                                       *)
(*   RFC 2822 date-time  <<weekday, d, month name, Y, H, M, S>>            *)
(* weekday and month names are letters, which sort after every digit:      *)
(* they are the codes Letter(n).                                           *)
(*                                                                         *)
(* Python's None is the empty mapping for mappings (both are falsy) and    *)
(* the string NoneStr for strings.                                         *)
(***************************************************************************)
EXTENDS Naturals, Sequences, FiniteSets, TLC

VARIABLES
    run,         \* the stream the driver runs
    start_date,  \* its configured start_date, NoText when there is none
    chain,       \* the stream objects of its parent chain, root first
    prior,       \* the state the run started with
    state,       \* the driver's stream_state
    rd,          \* per level of the chain, its read_records generator
    requests,    \* history: every request, with its answer
    emitted,     \* history: the records the driver emitted
    derived,     \* history: every parent record a stream_slices took
    yielded,     \* history: every slice a stream_slices yielded
    marks,       \* history: the state after each emitted record
    pc,          \* "run", "done" or "failed"
    failedAt     \* the level whose request failed, 0 when none did

vars == <<run, start_date, chain, prior, state, rd, requests, emitted, derived, yielded,
          marks, pc, failedAt>>

\* What a run never changes: the stream it runs, its configuration and the
\* stream objects of its parent chain, root first.
config == <<run, start_date, chain, prior>>

(* ---------------------------------------------------------------- bounds *)
MaxRequests == 3

(* ------------------------------------------------------------ dictionaries *)
EmptyDict == [k \in {} |-> ""]
NoneStr == "<None>"
NoText == <<>>

Update(p, q) == q @@ p

TruthyStr(s) == s # NoneStr /\ s # ""

GetStr(d, k) == IF k \in DOMAIN d THEN d[k] ELSE NoneStr

GetText(d, k) == IF k \in DOMAIN d THEN d[k] ELSE NoText

(* -------------------------------------------------- sequences of lexemes *)
RECURSIVE IndexFrom(_, _, _)
IndexFrom(s, x, i) ==
    IF i > Len(s) THEN 0
    ELSE IF s[i] = x THEN i
    ELSE IndexFrom(s, x, i + 1)

IndexOf(s, x) == IndexFrom(s, x, 1)

RECURSIVE Split(_, _)
Split(s, sep) ==
    LET i == IndexOf(s, sep)
    IN  IF i = 0 THEN <<s>>
        ELSE <<SubSeq(s, 1, i - 1)>> \o Split(SubSeq(s, i + 1, Len(s)), sep)

RECURSIVE Join(_)
Join(s) == IF s = <<>> THEN "" ELSE s[1] \o Join(Tail(s))

(* ------------------------------------------------------------------ URLs *)
\* urllib.parse.urlparse(url).query: the fragment is cut at the first "#",
\* then the query is what follows the first "?" of the rest.
urlparse_query(uri) ==
    LET h == IndexOf(uri, "#")
        u == IF h = 0 THEN uri ELSE SubSeq(uri, 1, h - 1)
        q == IndexOf(u, "?")
    IN  IF q = 0 THEN <<>> ELSE SubSeq(u, q + 1, Len(u))

\* urllib.parse.parse_qsl(qs) with its defaults (keep_blank_values=False,
\* strict_parsing=False): the fields between "&"; a field without "=" and a
\* field with a blank value are dropped, silently.
RECURSIVE parse_fields(_)
parse_fields(fields) ==
    IF fields = <<>> THEN <<>>
    ELSE LET f == Head(fields)
             e == IndexOf(f, "=")
             name == Join(SubSeq(f, 1, e - 1))
             value == Join(SubSeq(f, e + 1, Len(f)))
         IN  IF e = 0 \/ value = ""
             THEN parse_fields(Tail(fields))
             ELSE <<(<<name, value>>)>> \o parse_fields(Tail(fields))

parse_qsl(qs) == parse_fields(Split(qs, "&"))

\* dict(pairs): a later pair of the same key replaces the earlier one.
RECURSIVE dict(_)
dict(pairs) ==
    IF pairs = <<>> THEN EmptyDict
    ELSE LET n == Len(pairs)
         IN  (pairs[n][1] :> pairs[n][2]) @@ dict(SubSeq(pairs, 1, n - 1))

(* ----------------------------------------------------------------- dates *)
Letter(n) == 100 + n

RECURSIVE TextLess(_, _)
TextLess(a, b) ==
    IF b = <<>> THEN FALSE
    ELSE IF a = <<>> THEN TRUE
    ELSE IF a[1] # b[1] THEN a[1] < b[1]
    ELSE TextLess(Tail(a), Tail(b))

\* Python's max(a, b) on strings: b only when it is strictly greater.
max(a, b) == IF TextLess(a, b) THEN b ELSE a

\* pendulum.parse(text): the date-time a text denotes, read by its shape.
pendulum_parse(t) ==
    IF Len(t) = 7
    THEN [Y |-> t[4], m |-> t[3] - Letter(0), d |-> t[2], H |-> t[5], M |-> t[6], S |-> t[7]]
    ELSE IF Len(t) = 6
    THEN [Y |-> t[1], m |-> t[2], d |-> t[3], H |-> t[4], M |-> t[5], S |-> t[6]]
    ELSE [Y |-> t[1], m |-> t[2], d |-> t[3], H |-> 0, M |-> 0, S |-> 0]

\* datetime.strftime(template): the template's directives, in its order.
strftime(dt, template) == [i \in 1..Len(template) |-> dt[template[i]]]

Rfc2822(wd, Y, m, d, H) == <<Letter(wd), d, Letter(m), Y, H, 0, 0>>

Iso8601(Y, m, d, H) == <<Y, m, d, H, 0, 0>>

IsoDate(Y, m, d) == <<Y, m, d>>

(* -------------------------------------------------------------- registry *)
page_size == 100

DateTimeTemplate == <<"Y", "m", "d", "H", "M", "S">>

DateTemplate == <<"Y", "m", "d">>

StreamDef(parent, data_field, key, slicer) ==
    [parent |-> parent, data_field |-> data_field, subresource_uri_key |-> key,
     media_exist_validation |-> EmptyDict, incremental |-> FALSE,
     cursor_field |-> "", incremental_filter_field |-> "",
     time_filter_template |-> DateTimeTemplate, slicer |-> slicer]

Incremental(def, cursor_field, filter) ==
    [def EXCEPT !.incremental = TRUE, !.cursor_field = cursor_field,
                !.incremental_filter_field = filter]

Nested(name, parent) == StreamDef(parent, name, name, "nested")

Registry ==
    [accounts |-> StreamDef("", "accounts", "accounts", "root"),
     addresses |-> Nested("addresses", "accounts"),
     dependent_phone_numbers |->
        StreamDef("addresses", "dependent_phone_numbers", "dependent_phone_numbers",
                  "dependent"),
     applications |-> Nested("applications", "accounts"),
     available_phone_number_countries |->
        StreamDef("accounts", "countries", "available_phone_numbers", "nested"),
     available_phone_numbers_local |->
        StreamDef("available_phone_number_countries", "available_phone_numbers",
                  "local", "nested"),
     available_phone_numbers_mobile |->
        StreamDef("available_phone_number_countries", "available_phone_numbers",
                  "mobile", "nested"),
     available_phone_numbers_toll_free |->
        StreamDef("available_phone_number_countries", "available_phone_numbers",
                  "toll_free", "nested"),
     incoming_phone_numbers |-> Nested("incoming_phone_numbers", "accounts"),
     keys |-> Nested("keys", "accounts"),
     calls |-> Incremental(Nested("calls", "accounts"), "end_time", "EndTime>"),
     conferences |->
        Incremental(Nested("conferences", "accounts"), "date_updated", "DateUpdated>="),
     conference_participants |->
        StreamDef("conferences", "participants", "participants", "nested"),
     outgoing_caller_ids |-> Nested("outgoing_caller_ids", "accounts"),
     recordings |->
        Incremental(Nested("recordings", "accounts"), "date_created", "DateCreated>"),
     transcriptions |-> Nested("transcriptions", "accounts"),
     queues |-> Nested("queues", "accounts"),
     messages |-> Incremental(Nested("messages", "accounts"), "date_sent", "DateSent>"),
     message_media |->
        [Incremental(StreamDef("messages", "media_list", "media", "nested"),
                     "date_updated", "StartTime>=")
            EXCEPT !.media_exist_validation = ("num_media" :> "0")],
     usage_records |->
        [Incremental(StreamDef("accounts", "usage_records", "usage_records", "usage"),
                     "end_date", "EndDate")
            EXCEPT !.time_filter_template = DateTemplate],
     usage_triggers |->
        [StreamDef("accounts", "usage_triggers", "triggers", "usage")
            EXCEPT !.time_filter_template = DateTemplate],
     alerts |->
        Incremental(StreamDef("", "alerts", "alerts", "root"), "date_updated", "StartDate")]

StreamNames == DOMAIN Registry

(* ------------------------------------------------------- stream instances *)
\* A stream object: its class and the start_date its constructor was given.
Instance(stream, date) == [stream |-> stream, start_date |-> date]

DefOf(inst) == Registry[inst.stream]

\* Mutant: the parent is constructed with the child's start_date.
parent_instance_inherits(inst) == Instance(DefOf(inst).parent, inst.start_date)

\* Mutant: parent_stream names the stream's own class.
parent_instance_self(inst) == Instance(inst.stream, NoText)

\* TwilioNestedStream.stream_slices, first line: the parent is constructed
\* with the authenticator alone, so its start_date is the default, None.
parent_instance(inst) == Instance(DefOf(inst).parent, NoText)

(* ------------------------------------------------------------ TwilioStream *)
HasNextPageUri(response) ==
    "next_page_uri" \in DOMAIN response /\ response["next_page_uri"] # <<>>

\* Mutant: the continuation is read from a field the API does not send.
next_page_token_other_field(response) ==
    IF "next_page_url" \in DOMAIN response
    THEN dict(parse_qsl(urlparse_query(response["next_page_url"])))
    ELSE EmptyDict

\* None is the empty mapping: the read loop and request_params test the
\* token's truth value only.
next_page_token(response) ==
    IF HasNextPageUri(response)
    THEN dict(parse_qsl(urlparse_query(response["next_page_uri"])))
    ELSE EmptyDict

\* Mutant: a body without the data field is taken for one record.
parse_response_whole(inst, response) ==
    IF DefOf(inst).data_field \in DOMAIN response
    THEN response[DefOf(inst).data_field]
    ELSE <<response>>

parse_response(inst, response) ==
    IF DefOf(inst).data_field \in DOMAIN response
    THEN response[DefOf(inst).data_field]
    ELSE <<>>

HttpStream_request_params == EmptyDict

\* Mutant: the token replaces the params instead of being merged into them.
TwilioStream_request_params_replaced(inst, stream_state, token) ==
    LET params == Update(HttpStream_request_params, "PageSize" :> page_size)
    IN  IF token # EmptyDict THEN token ELSE params

TwilioStream_request_params(inst, stream_state, token) ==
    LET params == Update(HttpStream_request_params, "PageSize" :> page_size)
    IN  IF token # EmptyDict THEN Update(params, token) ELSE params

(* -------------------------------------------------- IncrementalTwilioStream *)
Format(inst, text) == strftime(pendulum_parse(text), DefOf(inst).time_filter_template)

\* Mutant: the configured start_date comes before the state's watermark.
effective_start_config_first(inst, stream_state) ==
    IF inst.start_date # NoText
    THEN inst.start_date
    ELSE GetText(stream_state, DefOf(inst).cursor_field)

effective_start(inst, stream_state) ==
    IF GetText(stream_state, DefOf(inst).cursor_field) # NoText
    THEN stream_state[DefOf(inst).cursor_field]
    ELSE inst.start_date

\* Mutant: the filter is sent with the first request of a slice only; a
\* continuation request leaves the paging to the token and sends no filter.
IncrementalTwilioStream_request_params_first_only(inst, stream_state, token) ==
    LET params == TwilioStream_request_params(inst, stream_state, token)
        date == effective_start(inst, stream_state)
        filter == DefOf(inst).incremental_filter_field
    IN  IF token # EmptyDict
        THEN [key \in DOMAIN params \ {filter} |-> params[key]]
        ELSE IF date # NoText
        THEN Update(params, filter :> Format(inst, date))
        ELSE params

IncrementalTwilioStream_request_params(inst, stream_state, token) ==
    LET params == TwilioStream_request_params(inst, stream_state, token)
        date == effective_start(inst, stream_state)
    IN  IF date # NoText
        THEN Update(params, DefOf(inst).incremental_filter_field :> Format(inst, date))
        ELSE params

request_params(inst, stream_state, token) ==
    IF DefOf(inst).incremental
    THEN IncrementalTwilioStream_request_params(inst, stream_state, token)
    ELSE TwilioStream_request_params(inst, stream_state, token)

\* latest_record[self.cursor_field] raises KeyError on a record without the
\* field, and pendulum.parse raises on a null value.
cursor_missing(inst, latest_record) ==
    GetText(latest_record, DefOf(inst).cursor_field) = NoText

\* Mutant: the latest record's value replaces the watermark, without max.
get_updated_state_latest(inst, current_stream_state, latest_record) ==
    DefOf(inst).cursor_field :>
        Format(inst, latest_record[DefOf(inst).cursor_field])

get_updated_state(inst, current_stream_state, latest_record) ==
    LET cursor_field == DefOf(inst).cursor_field
        latest_benchmark == Format(inst, latest_record[cursor_field])
    IN  IF GetText(current_stream_state, cursor_field) # NoText
        THEN cursor_field :> max(latest_benchmark, current_stream_state[cursor_field])
        ELSE cursor_field :> latest_benchmark

\* Mutant: the watermark is written into the mapping that was passed in.
current_stream_state_after_update(inst, current_stream_state, latest_record) ==
    get_updated_state(inst, current_stream_state, latest_record)

\* The mapping passed as current_stream_state, after the call: the method reads
\* it with get and a subscript and assigns nothing into it.
current_stream_state_after(inst, current_stream_state, latest_record) ==
    current_stream_state

\* Mutant: a record without the cursor field leaves the state as it was.
get_updated_state_call_skips(inst, current_stream_state, latest_record) ==
    IF cursor_missing(inst, latest_record)
    THEN [raised |-> FALSE, value |-> current_stream_state]
    ELSE [raised |-> FALSE,
          value |-> get_updated_state(inst, current_stream_state, latest_record)]

\* The outcome of a call of get_updated_state: the exception of its first
\* statement, or the mapping it returns.
get_updated_state_call(inst, current_stream_state, latest_record) ==
    IF cursor_missing(inst, latest_record)
    THEN [raised |-> TRUE, value |-> EmptyDict]
    ELSE [raised |-> FALSE,
          value |-> get_updated_state(inst, current_stream_state, latest_record)]

(* ------------------------------------------------------ TwilioNestedStream *)
subresource_uri(inst, item) ==
    LET uris == IF "subresource_uris" \in DOMAIN item
                THEN item["subresource_uris"] ELSE EmptyDict
    IN  GetStr(uris, DefOf(inst).subresource_uri_key)

\* Mutant: the sentinel value is not compared.
validated_present(inst, item) ==
    \A key \in DOMAIN DefOf(inst).media_exist_validation : TruthyStr(GetStr(item, key))

validated(inst, item) ==
    \A key \in DOMAIN DefOf(inst).media_exist_validation :
        /\ TruthyStr(GetStr(item, key))
        /\ GetStr(item, key) # DefOf(inst).media_exist_validation[key]

\* The slices one parent record contributes, in order: none or one.
TwilioNestedStream_slices(inst, item) ==
    IF TruthyStr(subresource_uri(inst, item)) /\ validated(inst, item)
    THEN <<[subresource_uri |-> item["subresource_uris"][DefOf(inst).subresource_uri_key]]>>
    ELSE <<>>

\* Mutant: DependentPhoneNumbers keeps the inherited stream_slices.
DependentPhoneNumbers_slices_inherited(inst, item) == TwilioNestedStream_slices(inst, item)

DependentPhoneNumbers_slices(inst, item) ==
    <<[sid |-> item["sid"], account_sid |-> item["account_sid"]]>>

\* Mutant: the usage streams keep the inherited stream_slices.
UsageNestedStream_slices_inherited(inst, item) == TwilioNestedStream_slices(inst, item)

UsageNestedStream_slices(inst, item) == <<[account_sid |-> item["sid"]]>>

slices_of(inst, item) ==
    CASE DefOf(inst).slicer = "nested" -> TwilioNestedStream_slices(inst, item)
      [] DefOf(inst).slicer = "dependent" -> DependentPhoneNumbers_slices(inst, item)
      [] DefOf(inst).slicer = "usage" -> UsageNestedStream_slices(inst, item)

(* ---------------------------------------------------------- the mocked API *)
Path == "/2010-04-01/Accounts.json"

GoodUri == <<Path, "?", "PageToken", "=", "abc", "&", "Page", "=", "2">>

\* A query that is not empty and holds no key=value field.
BadUri == <<Path, "?", "PageToken">>

\* <<>> is a response without next_page_uri.
NextUris == {<<>>, GoodUri, BadUri}

Uris(sid) ==
    [addresses |-> "/2010-04-01/Accounts/" \o sid \o "/Addresses.json",
     calls |-> "/2010-04-01/Accounts/" \o sid \o "/Calls.json",
     messages |-> "/2010-04-01/Accounts/" \o sid \o "/Messages.json",
     conferences |-> "/2010-04-01/Accounts/" \o sid \o "/Conferences.json",
     usage_records |-> "/2010-04-01/Accounts/" \o sid \o "/Usage/Records.json"]

Account(sid) == [sid |-> sid, subresource_uris |-> Uris(sid)]

\* An account whose subresource_uris lacks addresses and has an empty messages.
BareAccount(sid) ==
    [sid |-> sid,
     subresource_uris |-> [calls |-> "/2010-04-01/Accounts/" \o sid \o "/Calls.json",
                           messages |-> ""]]

Address(sid, account_sid) == [sid |-> sid, account_sid |-> account_sid]

Message(sid, num_media) ==
    [sid |-> sid, num_media |-> num_media,
     subresource_uris |-> [media |-> "/2010-04-01/Messages/" \o sid \o "/Media.json"]]

\* The times of the mocked records: Early < Middle < Late.
Early(inst) == Rfc2822(5, 2020, 12, 31, 23)

Late(inst) == Rfc2822(1, 2021, 6, 1, 0)

Timed(inst, sid, text) == (DefOf(inst).cursor_field :> text) @@ [sid |-> sid]

Conference(sid, text) ==
    [sid |-> sid, date_updated |-> text,
     subresource_uris |->
        [participants |-> "/2010-04-01/Conferences/" \o sid \o "/Participants.json"]]

\* The streams whose answers may lack the data field, hold a record without
\* the cursor field, or name the filter parameter in next_page_uri.
IrregularStreams == {"alerts", "usage_records", "usage_triggers"}

\* A next_page_uri whose query names the stream's own filter parameter.
FilterUri(inst) ==
    <<Path, "?", DefOf(inst).incremental_filter_field, "=", "1999-01-01", "&",
      "PageToken", "=", "abc">>

NextUrisOf(inst) ==
    IF inst.stream \in IrregularStreams
    THEN {<<>>, IF DefOf(inst).incremental THEN FilterUri(inst) ELSE GoodUri}
    ELSE IF inst.stream = "conferences" THEN {<<>>, GoodUri}
    ELSE NextUris

PagesOf(inst) ==
    CASE inst.stream = "accounts" ->
            {<<>>, <<Account("AC1"), BareAccount("AC2")>>,
             <<BareAccount("AC2"), Account("AC3")>>}
      [] inst.stream = "addresses" ->
            {<<>>, <<Address("AD1", "AC1")>>, <<Address("AD2", "AC1"), Address("AD3", "AC3")>>}
      [] inst.stream = "messages" ->
            {<<>>, <<Message("SM1", "5"), Message("SM2", "0")>>,
             <<[sid |-> "SM3", num_media |-> "2"], Message("SM4", "1")>>,
             <<Message("SM5", ""), Message("SM6", "3")>>}
      [] inst.stream = "conferences" ->
            {<<Conference("CF1", Late(inst)), Timed(inst, "CF2", Early(inst))>>}
      [] inst.stream \in IrregularStreams /\ DefOf(inst).incremental ->
            {<<Timed(inst, "R1", Late(inst)), Timed(inst, "R2", Early(inst))>>,
             <<Timed(inst, "R3", Early(inst)), [sid |-> "R4"], Timed(inst, "R5", Late(inst))>>}
      [] inst.stream \in IrregularStreams ->
            {<<[sid |-> "R1"], [sid |-> "R2"]>>, <<[sid |-> "R3"]>>}
      [] DefOf(inst).incremental ->
            {<<>>, <<Timed(inst, "R1", Late(inst)), Timed(inst, "R2", Early(inst))>>,
             <<Timed(inst, "R3", Early(inst))>>}
      [] OTHER -> {<<>>, <<[sid |-> "R1"], [sid |-> "R2"]>>, <<[sid |-> "R3"]>>}

Body(inst, page, uri) ==
    (DefOf(inst).data_field :> page) @@
    (IF uri = <<>> THEN EmptyDict ELSE ("next_page_uri" :> uri))

\* A body without the data field.
Bare(inst, uri) == IF uri = <<>> THEN EmptyDict ELSE ("next_page_uri" :> uri)

Responses(inst) ==
    {Body(inst, page, uri) : page \in PagesOf(inst), uri \in NextUrisOf(inst)}
        \cup (IF inst.stream \in IrregularStreams
              THEN {Bare(inst, uri) : uri \in NextUrisOf(inst)}
              ELSE {})

(* ---------------------------------------------------------------- the run *)
RunStreams == {"accounts", "addresses", "dependent_phone_numbers", "calls", "message_media"}

StartDates == {NoText, IsoDate(2021, 1, 1)}

\* No state, or the state an earlier run of the stream left.
PriorStates(stream) ==
    {EmptyDict,
     Registry[stream].cursor_field :>
        strftime(pendulum_parse(Iso8601(2021, 3, 1, 0)),
                 Registry[stream].time_filter_template)}

RECURSIVE ChainOf(_)
ChainOf(inst) ==
    IF DefOf(inst).parent = "" THEN <<inst>>
    ELSE ChainOf(parent_instance(inst)) \o <<inst>>

N == Len(chain)

\* shared: the reader's stream_state is the very mapping the driver's variable
\* refers to.  token: next_page_token of the last response, taken once when
\* the response arrives.
Idle ==
    [live |-> FALSE, no |-> 0, slice |-> EmptyDict, state |-> EmptyDict,
     shared |-> FALSE, resp |-> EmptyDict, token |-> EmptyDict, idx |-> 0,
     fetched |-> FALSE]

\* read_records(stream_slice=slice, stream_state=stream_state), not yet started,
\* on the no-th slice of the run.
Reader(no, slice, stream_state) ==
    [Idle EXCEPT !.live = TRUE, !.no = no, !.slice = slice, !.state = stream_state]

\* The driver's call: it passes the mapping of its own variable.
DriverReader(no, slice, stream_state) ==
    [Reader(no, slice, stream_state) EXCEPT !.shared = TRUE]

\* The first reader of a chain, on the one slice of its root.
FirstReaders(streams, stream_state) ==
    [i \in 1..Len(streams) |->
        IF i > 1 THEN Idle
        ELSE IF Len(streams) = 1 THEN DriverReader(1, EmptyDict, stream_state)
        ELSE Reader(1, EmptyDict, EmptyDict)]

\* The one slice of a root stream, [None]; state is the stream_state its
\* read_records is given.
FirstSlice(streams, stream_state) ==
    <<[level |-> 1, slice |-> EmptyDict, at |-> 0,
       state |-> IF Len(streams) = 1 THEN stream_state ELSE EmptyDict]>>

Records(i) == parse_response(chain[i], rd[i].resp)

\* HttpStream.read_records: the pagination of level i's slice has a next step.
Busy(i) ==
    /\ rd[i].live
    /\ \/ ~rd[i].fetched
       \/ rd[i].idx < Len(Records(i))
       \/ rd[i].token # EmptyDict

\* The generators pull from one another: the deepest reader with a next step
\* is the one that runs.
Cur == IF \E i \in 1..N : Busy(i)
       THEN CHOOSE i \in 1..N : Busy(i) /\ \A j \in 1..N : Busy(j) => j <= i
       ELSE 0

Init ==
    /\ run \in RunStreams
    /\ start_date \in (IF Registry[run].incremental THEN StartDates ELSE {NoText})
    /\ chain = ChainOf(Instance(run, start_date))
    /\ prior \in (IF Registry[run].incremental THEN PriorStates(run) ELSE {EmptyDict})
    /\ state = prior
    /\ rd = FirstReaders(chain, prior)
    /\ requests = <<>>
    /\ emitted = <<>>
    /\ derived = <<>>
    /\ yielded = FirstSlice(chain, prior)
    /\ marks = <<>>
    /\ pc = "run"
    /\ failedAt = 0

\* The request of read_records' loop at level i: the first of a slice, or the
\* one that follows a page with a token.
Request(i) ==
    LET token == rd[i].token
    IN  [level |-> i, stream |-> chain[i].stream, no |-> rd[i].no, slice |-> rd[i].slice,
         state |-> rd[i].state, now |-> state, seen |-> Len(emitted), token |-> token,
         params |-> request_params(chain[i], rd[i].state, token)]

CanFetch(i) ==
    /\ pc = "run"
    /\ i # 0
    /\ ~rd[i].fetched \/ rd[i].idx = Len(Records(i))
    /\ Len(requests) < MaxRequests

\* One request answered with a page.
Fetch ==
    LET i == Cur
    IN  /\ CanFetch(i)
        /\ \E response \in Responses(chain[i]) :
            /\ requests' = Append(requests, Request(i) @@ [ok |-> TRUE, resp |-> response])
            /\ rd' = [rd EXCEPT ![i].resp = response,
                                ![i].token = next_page_token(response),
                                ![i].idx = 0, ![i].fetched = TRUE]
        /\ UNCHANGED <<config, state, emitted, derived, yielded, marks, pc, failedAt>>

\* One request that fails: the exception leaves every generator of the chain.
FetchFails ==
    LET i == Cur
    IN  /\ CanFetch(i)
        /\ requests' = Append(requests, Request(i) @@ [ok |-> FALSE, resp |-> EmptyDict])
        /\ pc' = "failed"
        /\ failedAt' = i
        /\ UNCHANGED <<config, state, rd, emitted, derived, yielded, marks>>

CanTake(i) ==
    /\ pc = "run"
    /\ i # 0
    /\ rd[i].fetched
    /\ rd[i].idx < Len(Records(i))

\* The driver takes the next record of the stream it runs, emits it and
\* updates the state.
Emit ==
    /\ Cur = N
    /\ CanTake(N)
    /\ LET item == Records(N)[rd[N].idx + 1]
           call == get_updated_state_call(chain[N], state, item)
       IN  /\ emitted' = Append(emitted, item)
           /\ IF ~DefOf(chain[N]).incremental
              THEN /\ rd' = [rd EXCEPT ![N].idx = @ + 1]
                   /\ UNCHANGED <<state, marks, pc, failedAt>>
              ELSE IF call.raised
              THEN /\ rd' = [rd EXCEPT ![N].idx = @ + 1]
                   /\ pc' = "failed"
                   /\ failedAt' = N
                   /\ UNCHANGED <<state, marks>>
              ELSE /\ state' = call.value
                   /\ marks' = Append(marks, state')
                   /\ rd' = [rd EXCEPT
                               ![N].idx = @ + 1,
                               ![N].state =
                                   IF rd[N].shared
                                   THEN current_stream_state_after(chain[N], state, item)
                                   ELSE @,
                               ![N].shared = FALSE]
                   /\ UNCHANGED <<pc, failedAt>>
    /\ UNCHANGED <<config, requests, derived, yielded>>

\* Mutant: stream_slices takes the next record of the parent while the slice
\* it yielded before is still being read.
Derive_ahead ==
    \E i \in 1..(N - 1) :
        /\ CanTake(i)
        /\ LET item == Records(i)[rd[i].idx + 1]
               new == slices_of(chain[i + 1], item)
           IN  /\ derived' = Append(derived, [level |-> i + 1, item |-> item, slices |-> new])
               /\ yielded' = yielded \o
                     [k \in 1..Len(new) |->
                        [level |-> i + 1, slice |-> new[k], at |-> Len(requests),
                         state |-> IF i + 1 = N THEN state ELSE EmptyDict]]
               /\ rd' = [rd EXCEPT ![i].idx = @ + 1,
                                   ![i + 1] = IF new = <<>> THEN @
                                              ELSE IF i + 1 = N
                                              THEN DriverReader(Len(yielded) + 1, new[1], state)
                                              ELSE Reader(Len(yielded) + 1, new[1], EmptyDict)]
        /\ UNCHANGED <<config, state, requests, emitted, marks, pc, failedAt>>

\* Mutant: the slice of a record is yielded twice.
Derive_twice ==
    LET i == Cur
    IN  /\ i < N
        /\ CanTake(i)
        /\ LET item == Records(i)[rd[i].idx + 1]
               once == slices_of(chain[i + 1], item)
               new == once \o once
           IN  /\ derived' = Append(derived, [level |-> i + 1, item |-> item, slices |-> new])
               /\ yielded' = yielded \o
                     [k \in 1..Len(new) |->
                        [level |-> i + 1, slice |-> new[k], at |-> Len(requests),
                         state |-> IF i + 1 = N THEN state ELSE EmptyDict]]
               /\ rd' = [rd EXCEPT ![i].idx = @ + 1,
                                   ![i + 1] = IF new = <<>> THEN @
                                              ELSE IF i + 1 = N
                                              THEN DriverReader(Len(yielded) + 1, new[1], state)
                                              ELSE Reader(Len(yielded) + 1, new[1], EmptyDict)]
        /\ UNCHANGED <<config, state, requests, emitted, marks, pc, failedAt>>

\* stream_slices of level i + 1 takes the next record of its parent and
\* yields the record's slices; read_records of level i + 1 starts on a slice.
Derive ==
    LET i == Cur
    IN  /\ i < N
        /\ CanTake(i)
        /\ LET item == Records(i)[rd[i].idx + 1]
               new == slices_of(chain[i + 1], item)
           IN  /\ derived' = Append(derived, [level |-> i + 1, item |-> item, slices |-> new])
               /\ yielded' = yielded \o
                     [k \in 1..Len(new) |->
                        [level |-> i + 1, slice |-> new[k], at |-> Len(requests),
                         state |-> IF i + 1 = N THEN state ELSE EmptyDict]]
               /\ rd' = [rd EXCEPT ![i].idx = @ + 1,
                                   ![i + 1] = IF new = <<>> THEN @
                                              ELSE IF i + 1 = N
                                              THEN DriverReader(Len(yielded) + 1, new[1], state)
                                              ELSE Reader(Len(yielded) + 1, new[1], EmptyDict)]
        /\ UNCHANGED <<config, state, requests, emitted, marks, pc, failedAt>>

\* Every generator is exhausted.
Finish ==
    /\ pc = "run"
    /\ Cur = 0
    /\ pc' = "done"
    /\ UNCHANGED <<config, state, rd, requests, emitted, derived, yielded, marks,
                   failedAt>>

Next ==
    \/ Fetch
    \/ FetchFails
    \/ Emit
    \/ Derive
    \/ Finish

Spec == Init /\ [][Next]_vars

(* ------------------------------------------ the run, its chain resolved by steps *)
RegistryRunStreams == {"alerts", "usage_records", "usage_triggers", "conference_participants"}

\* The run of a stream before its first stream_slices call: its own stream
\* object alone.
InitRegistry ==
    /\ run \in RegistryRunStreams
    /\ start_date \in (IF Registry[run].incremental THEN StartDates ELSE {NoText})
    /\ chain = <<Instance(run, start_date)>>
    /\ prior \in (IF Registry[run].incremental THEN PriorStates(run) ELSE {EmptyDict})
    /\ state = prior
    /\ rd = [i \in 1..1 |-> Idle]
    /\ requests = <<>>
    /\ emitted = <<>>
    /\ derived = <<>>
    /\ yielded = <<>>
    /\ marks = <<>>
    /\ pc = "resolve"
    /\ failedAt = 0

\* stream_slices of the stream at the head of the chain constructs its parent
\* and calls the parent's stream_slices.
Resolve ==
    /\ pc = "resolve"
    /\ DefOf(chain[1]).parent # ""
    /\ chain' = <<parent_instance(chain[1])>> \o chain
    /\ rd' = [i \in 1..(Len(chain) + 1) |-> Idle]
    /\ UNCHANGED <<run, start_date, prior, state, requests, emitted, derived, yielded,
                   marks, pc, failedAt>>

\* The head of the chain has no parent_stream: its stream_slices is the one
\* slice [None], and the reading starts.
Begin ==
    /\ pc = "resolve"
    /\ DefOf(chain[1]).parent = ""
    /\ pc' = "run"
    /\ rd' = FirstReaders(chain, prior)
    /\ yielded' = FirstSlice(chain, prior)
    /\ UNCHANGED <<config, state, requests, emitted, derived, marks, failedAt>>

NextRegistry ==
    \/ Resolve
    \/ Begin
    \/ Fetch
    \/ FetchFails
    \/ Emit
    \/ Derive
    \/ Finish

SpecRegistry == InitRegistry /\ [][NextRegistry]_vars

(* ====================================================================== *)
(* Properties                                                               *)
(* ====================================================================== *)
RECURSIVE Concat(_)
Concat(ss) == IF ss = <<>> THEN <<>> ELSE Head(ss) \o Concat(Tail(ss))

IsLastOfSlice(k) == \A j \in (k + 1)..Len(requests) : requests[j].no # requests[k].no

\* The pagination of the slice of request k has ended, and not by an error.
SliceOver(k) ==
    /\ requests[k].ok
    /\ IsLastOfSlice(k)
    /\ pc = "done" \/ rd[requests[k].level].no # requests[k].no

\* The records of the k-th request's page that were taken so far: all of them,
\* unless the page is the one its reader is on.
TakenOf(k) ==
    LET q == requests[k]
        records == parse_response(chain[q.level], q.resp)
    IN  IF IsLastOfSlice(k) /\ rd[q.level].no = q.no
        THEN SubSeq(records, 1, rd[q.level].idx)
        ELSE records

\* The records taken at a level, in the order of the requests.
TakenAt(level) ==
    Concat([k \in 1..Len(requests) |->
               IF requests[k].level = level /\ requests[k].ok THEN TakenOf(k) ELSE <<>>])

\* A query holds a key=value field whose value is not blank.
HasParameter(query) ==
    \E k \in 1..(Len(query) - 1) : query[k] = "=" /\ query[k + 1] # "&"

NonEmptyQuery(response) ==
    HasNextPageUri(response) /\ urlparse_query(response["next_page_uri"]) # <<>>

ParameterQuery(response) ==
    HasNextPageUri(response) /\ HasParameter(urlparse_query(response["next_page_uri"]))

\* The records are emitted once each, in page order and then in the order of
\* the page; a request follows a page of the same slice only when the page
\* names a next page.
EmittedInOrder ==
    /\ emitted = TakenAt(N)
    /\ \A k \in 1..Len(requests) :
          ~IsLastOfSlice(k) => HasNextPageUri(requests[k].resp)

CursorField == DefOf(chain[N]).cursor_field

Greatest(texts) == CHOOSE x \in texts : \A y \in texts : ~TextLess(x, y)

\* The prior watermark and the formatted cursor values of records 1..k.
Observed(k) ==
    {Format(chain[N], emitted[j][CursorField]) : j \in 1..k}
        \cup (IF GetText(prior, CursorField) # NoText THEN {prior[CursorField]} ELSE {})

\* C2: after the k-th record the watermark is the greatest of the prior
\* watermark and the formatted cursor values of records 1..k, and it is never
\* smaller than the watermark before.
C2_WatermarkIsMax ==
    \A k \in 1..Len(marks) :
        /\ marks[k][CursorField] = Greatest(Observed(k))
        /\ ~TextLess(marks[k][CursorField],
                     IF k = 1 THEN GetText(prior, CursorField) ELSE marks[k - 1][CursorField])

\* A record older than the watermark arrived after the watermark had advanced
\* beyond the prior state.
C2_Witness ==
    /\ GetText(prior, CursorField) # NoText
    /\ \E k \in 2..Len(marks) :
          /\ TextLess(prior[CursorField], marks[k - 1][CursorField])
          /\ TextLess(Format(chain[N], emitted[k][CursorField]), marks[k - 1][CursorField])
          /\ marks[k] = marks[k - 1]

(* ------------------------------------------------------------------- C3 *)
FilterOf(q) == DefOf(chain[q.level]).incremental_filter_field

WatermarkOf(q) == GetText(q.state, DefOf(chain[q.level]).cursor_field)

\* C3: a request of an incremental stream carries the filter parameter with
\* the formatted watermark of the state when the state has one, with the
\* formatted start_date when only that exists, and no filter when neither does.
C3_FilterInjection ==
    \A k \in 1..Len(requests) :
        LET q == requests[k]
            inst == chain[q.level]
        IN  DefOf(inst).incremental =>
              /\ WatermarkOf(q) # NoText =>
                    /\ FilterOf(q) \in DOMAIN q.params
                    /\ q.params[FilterOf(q)] = Format(inst, WatermarkOf(q))
              /\ WatermarkOf(q) = NoText /\ inst.start_date # NoText =>
                    /\ FilterOf(q) \in DOMAIN q.params
                    /\ q.params[FilterOf(q)] = Format(inst, inst.start_date)
              /\ WatermarkOf(q) = NoText /\ inst.start_date = NoText =>
                    FilterOf(q) \notin DOMAIN q.params

\* A request made with a watermark in the state and a start_date configured,
\* the two formatting to different values.
C3_Witness ==
    \E k \in 1..Len(requests) :
        LET q == requests[k]
            inst == chain[q.level]
        IN  /\ DefOf(inst).incremental
            /\ WatermarkOf(q) # NoText
            /\ inst.start_date # NoText
            /\ Format(inst, WatermarkOf(q)) # Format(inst, inst.start_date)
            /\ q.params[FilterOf(q)] = Format(inst, WatermarkOf(q))

(* ------------------------------------------------------------------- C4 *)
\* C4: for each parent record TwilioNestedStream.stream_slices yields no slice
\* when the record's subresource_uris lacks the locator or has it empty, or
\* when a field of media_exist_validation is missing, empty or the sentinel;
\* otherwise exactly one slice, holding the locator unchanged.
C4_SkipRule ==
    \A k \in 1..Len(derived) :
        LET e == derived[k]
            def == DefOf(chain[e.level])
            uris == IF "subresource_uris" \in DOMAIN e.item
                    THEN e.item["subresource_uris"] ELSE EmptyDict
            key == def.subresource_uri_key
            lacks == key \notin DOMAIN uris \/ uris[key] = ""
            fails == \E f \in DOMAIN def.media_exist_validation :
                        \/ f \notin DOMAIN e.item
                        \/ e.item[f] = ""
                        \/ e.item[f] = def.media_exist_validation[f]
        IN  def.slicer = "nested" =>
               IF lacks \/ fails
               THEN e.slices = <<>>
               ELSE e.slices = <<[subresource_uri |-> uris[key]]>>

\* MessageMedia took a message with num_media "0", which gave no slice, and
\* one with num_media "5", which gave its media locator.
C4_Witness ==
    /\ run = "message_media"
    /\ \E j, k \in 1..Len(derived) :
          /\ derived[j].level = N /\ derived[k].level = N
          /\ GetStr(derived[j].item, "num_media") = "0"
          /\ "subresource_uris" \in DOMAIN derived[j].item
          /\ derived[j].slices = <<>>
          /\ GetStr(derived[k].item, "num_media") = "5"
          /\ Len(derived[k].slices) = 1

(* ------------------------------------------------------------------- C5 *)
\* The request before request k in the pagination of the same slice, or 0.
Prev(k) ==
    LET before == {j \in 1..(k - 1) : requests[j].no = requests[k].no}
    IN  IF before = {} THEN 0 ELSE CHOOSE j \in before : \A i \in before : i <= j

\* Request k follows a page whose next_page_uri has the query
\* PageToken=abc&Page=2.
FollowsToken(k) ==
    /\ Prev(k) # 0
    /\ HasNextPageUri(requests[Prev(k)].resp)
    /\ urlparse_query(requests[Prev(k)].resp["next_page_uri"])
          = <<"PageToken", "=", "abc", "&", "Page", "=", "2">>

PageSizeAndToken == [PageSize |-> page_size, PageToken |-> "abc", Page |-> "2"]

\* C5 as stated: the token is {PageToken: "abc", Page: "2"} and the params of
\* the next request are exactly the page size and these two keys.
C5_ExactlyPageSizeAndToken ==
    \A k \in 1..Len(requests) :
        FollowsToken(k) =>
            /\ requests[k].token = [PageToken |-> "abc", Page |-> "2"]
            /\ requests[k].params = PageSizeAndToken

\* C5 amended: the params of the next request are exactly the page size and
\* these two keys and, on an incremental stream with an effective start, the
\* incremental filter parameter with the formatted effective start.
C5_TokenRoundTrip ==
    \A k \in 1..Len(requests) :
        LET q == requests[k]
            inst == chain[q.level]
            start == IF WatermarkOf(q) # NoText THEN WatermarkOf(q) ELSE inst.start_date
        IN  FollowsToken(k) =>
              /\ q.token = [PageToken |-> "abc", Page |-> "2"]
              /\ q.params = IF DefOf(inst).incremental /\ start # NoText
                            THEN (FilterOf(q) :> Format(inst, start)) @@ PageSizeAndToken
                            ELSE PageSizeAndToken

\* A continuation request of a stream without a filter, and one of an
\* incremental stream that carries the filter next to the token.
C5_Witness ==
    \E k \in 1..Len(requests) :
        /\ FollowsToken(k)
        /\ requests[k].ok
        /\ DefOf(chain[requests[k].level]).incremental
        /\ FilterOf(requests[k]) \in DOMAIN requests[k].params

(* ------------------------------------------------------------------- C6 *)
SlicesAt(level) ==
    Concat([j \in 1..Len(yielded) |->
               IF yielded[j].level = level THEN <<yielded[j].slice>> ELSE <<>>])

\* Every record of every page answered for the no-th slice.
RecordsUnder(no) ==
    Concat([k \in 1..Len(requests) |->
               IF requests[k].no = no /\ requests[k].ok
               THEN parse_response(chain[requests[k].level], requests[k].resp)
               ELSE <<>>])

\* Every record of every page of every slice of a level.
RecordsAt(level) ==
    Concat([j \in 1..Len(yielded) |->
               IF yielded[j].level = level THEN RecordsUnder(j) ELSE <<>>])

HasAddresses(account) ==
    /\ "subresource_uris" \in DOMAIN account
    /\ "addresses" \in DOMAIN account["subresource_uris"]
    /\ account["subresource_uris"]["addresses"] # ""

\* C6: the slices of DependentPhoneNumbers are one {sid, account_sid} per
\* address record, in the order the addresses are read: the addresses of every
\* page of every account that has an Addresses locator, one Addresses slice
\* per such account; at the end of the run every address of every page read
\* has given its slice.
C6_DependentSlices ==
    run = "dependent_phone_numbers" =>
        /\ SlicesAt(3) = [k \in 1..Len(TakenAt(2)) |->
                            [sid |-> TakenAt(2)[k]["sid"],
                             account_sid |-> TakenAt(2)[k]["account_sid"]]]
        /\ Len(SlicesAt(2)) = Cardinality({k \in 1..Len(TakenAt(1)) : HasAddresses(TakenAt(1)[k])})
        /\ pc = "done" => Len(SlicesAt(3)) = Len(RecordsAt(2))

\* One account gave one Addresses slice, and its two addresses two slices.
C6_Witness ==
    /\ run = "dependent_phone_numbers"
    /\ Len(SlicesAt(2)) = 1
    /\ Len(SlicesAt(3)) = 2
    /\ Len(TakenAt(1)) = 2

(* ------------------------------------------------------------------- C7 *)
\* C7: a next_page_uri whose query gives no continuation parameter is never
\* taken for the end of the pages: the pagination of the slice does not end
\* normally on such a page.
C7_MalformedIsError ==
    \A k \in 1..Len(requests) :
        (HasNextPageUri(requests[k].resp) /\ ~ParameterQuery(requests[k].resp))
            => ~SliceOver(k)

(* ------------------------------------------------------------------- C8 *)
\* C8: when a request of a parent or grandparent level fails, no level below
\* it has been given a slice, has issued a request or has emitted a record.
C8_NoSliceFromFailedParent ==
    (pc = "failed" /\ failedAt < N) =>
        /\ \A k \in 1..Len(requests) : requests[k].level <= failedAt
        /\ \A j \in 1..Len(yielded) : yielded[j].level <= failedAt
        /\ emitted = <<>>

(* ------------------------------------------------------------------- C9 *)
\* C9: no page of the parent stream is requested after a page of the stream
\* that is run.
C9_ParentBeforeChild ==
    \A j, k \in 1..Len(requests) :
        (j < k /\ requests[j].level = N) => requests[k].level # N - 1

(* ------------------------------------------------------------------ C10 *)
\* C10: a request of a parent level is made with an empty state by a stream
\* object without start_date, and its params are the page size and the token
\* alone: no incremental filter parameter.
C10_FullParentTraversal ==
    \A k \in 1..Len(requests) :
        LET q == requests[k]
        IN  q.level < N =>
              /\ q.state = EmptyDict
              /\ chain[q.level].start_date = NoText
              /\ DOMAIN q.params = {"PageSize"} \cup DOMAIN q.token
              /\ FilterOf(q) \notin DOMAIN q.params

\* MessageMedia, run with a start_date and a state, asked its incremental
\* parent Messages for a first and for a continuation page.
C10_Witness ==
    /\ run = "message_media"
    /\ start_date # NoText
    /\ state # EmptyDict
    /\ \E k \in 1..Len(requests) :
          /\ requests[k].stream = "messages"
          /\ requests[k].token # EmptyDict

(* ------------------------------------------------------------------ C11 *)
\* C11: when an emitted record of an incremental stream lacks the cursor
\* field, the run has failed at the stream that is run; the record is the last
\* one emitted, no state was returned for it, the driver's state is the one
\* before it, and no request was issued after it.
C11_MissingCursorIsError ==
    DefOf(chain[N]).incremental =>
        \A k \in 1..Len(emitted) :
            (CursorField \notin DOMAIN emitted[k]) =>
                /\ pc = "failed"
                /\ failedAt = N
                /\ k = Len(emitted)
                /\ Len(marks) = k - 1
                /\ state = IF k = 1 THEN prior ELSE marks[k - 1]
                /\ \A j \in 1..Len(requests) : requests[j].seen < k

\* Alerts emitted a record with the cursor field and then one without it,
\* with a further record left on the page.
C11_Witness ==
    /\ run = "alerts"
    /\ pc = "failed"
    /\ Len(emitted) = 2
    /\ CursorField \in DOMAIN emitted[1]
    /\ CursorField \notin DOMAIN emitted[2]
    /\ marks = <<state>>
    /\ rd[N].idx < Len(Records(N))

(* ------------------------------------------------------------------ C12 *)
\* The answer to request k lacks the data field of its stream.
LacksDataField(k) ==
    /\ requests[k].ok
    /\ DefOf(chain[requests[k].level]).data_field \notin DOMAIN requests[k].resp

\* The records emitted out of the page of request k, a request of the stream
\* that is run: those emitted after it and before the next request.
EmittedOf(k) ==
    LET later == {j \in (k + 1)..Len(requests) : requests[j].level = N}
        upto == IF later = {} THEN Len(emitted)
                ELSE requests[CHOOSE j \in later : \A i \in later : j <= i].seen
    IN  SubSeq(emitted, requests[k].seen + 1, upto)

\* C12: a page without the data field gives no record and no error, and the
\* pagination of its slice goes on after it exactly when its next_page_uri
\* gives a continuation parameter.
C12_MissingDataField ==
    \A k \in 1..Len(requests) :
        LacksDataField(k) =>
            /\ requests[k].level = N => EmittedOf(k) = <<>>
            /\ k = Len(requests) => pc # "failed"
            /\ SliceOver(k) => ~ParameterQuery(requests[k].resp)
            /\ ~IsLastOfSlice(k) => ParameterQuery(requests[k].resp)

\* A page without the data field and with a next_page_uri was followed by a
\* page of the same slice whose records were emitted, and the slice ended on
\* a page without the data field and without next_page_uri.
C12_Witness ==
    /\ pc = "done"
    /\ Len(requests) = 3
    /\ requests[1].no = requests[3].no
    /\ LacksDataField(1) /\ HasNextPageUri(requests[1].resp)
    /\ ~LacksDataField(2) /\ EmittedOf(2) # <<>>
    /\ LacksDataField(3) /\ ~HasNextPageUri(requests[3].resp)

(* ------------------------------------------------------------------ C13 *)
\* The requests of the a-th slice.
RequestsOf(a) == {k \in 1..Len(requests) : requests[k].no = a}

\* C13: when a later slice of the same stream has been yielded, every request
\* of the earlier slice was issued before, there is at least one, and the last
\* one was answered by a page that gives no continuation; the requests of a
\* stream follow the order of its slices, and no request of a parent stream
\* falls between two requests of one slice.
C13_SequentialSlices ==
    /\ \A a, b \in 1..Len(yielded) :
          (a < b /\ yielded[a].level = yielded[b].level) =>
             /\ RequestsOf(a) # {}
             /\ \A k \in RequestsOf(a) :
                   /\ k <= yielded[b].at
                   /\ requests[k].ok
                   /\ (\A j \in RequestsOf(a) : j <= k)
                         => ~ParameterQuery(requests[k].resp)
    /\ \A j, k \in 1..Len(requests) :
          (j < k /\ requests[j].level = requests[k].level)
             => requests[j].no <= requests[k].no
    /\ \A j, k \in 1..Len(requests) :
          (j < k /\ requests[j].no = requests[k].no)
             => \A m \in j..k : requests[m].level >= requests[j].level

\* Calls read the slice of one account and then the slice of the next one.
C13_Witness ==
    /\ run = "calls"
    /\ \E j, k \in 1..Len(requests) :
          /\ j < k
          /\ requests[j].level = N /\ requests[k].level = N
          /\ requests[j].no < requests[k].no
          /\ requests[j].ok /\ requests[k].ok
          /\ parse_response(chain[N], requests[j].resp) # <<>>

(* ------------------------------------------------------------------ C14 *)
\* A parent record has a subresource_uris entry for the stream of a level.
HasLocator(level, item) ==
    /\ "subresource_uris" \in DOMAIN item
    /\ DefOf(chain[level]).subresource_uri_key \in DOMAIN item["subresource_uris"]

\* C14: every account record that stream_slices of UsageRecords or of
\* UsageTriggers takes gives exactly the one slice {account_sid: its sid},
\* with or without a subresource_uris entry for the stream; the slices are as
\* many as the account records taken, in their order.
C14_UsageSlices ==
    run \in {"usage_records", "usage_triggers"} =>
        /\ \A k \in 1..Len(derived) :
              derived[k].slices = <<[account_sid |-> derived[k].item["sid"]]>>
        /\ Len(derived) = Len(TakenAt(1))
        /\ SlicesAt(2) = [k \in 1..Len(TakenAt(1)) |->
                             [account_sid |-> TakenAt(1)[k]["sid"]]]

\* UsageRecords took an account with a usage_records entry and one without,
\* and each gave its slice.
C14_Witness ==
    /\ run = "usage_records"
    /\ \E j, k \in 1..Len(derived) :
          /\ HasLocator(2, derived[j].item) /\ Len(derived[j].slices) = 1
          /\ ~HasLocator(2, derived[k].item) /\ Len(derived[k].slices) = 1

(* ------------------------------------------------------------------ C15 *)
\* C15: every request of a slice of the stream that is run is made with the
\* state mapping as it was when the slice was started, whatever states
\* get_updated_state has returned to the driver since, and the reading of the
\* slice still holds that mapping with that value.
C15_StateArgumentUnchanged ==
    /\ \A k \in 1..Len(requests) :
          requests[k].level = N =>
             requests[k].state = yielded[requests[k].no].state
    /\ rd[N].live => rd[N].state = yielded[rd[N].no].state

\* A continuation request of an incremental stream issued after the driver's
\* state had moved on from the state the slice was started with.
C15_Witness ==
    \E k \in 1..Len(requests), j \in 1..Len(marks) :
        /\ requests[k].level = N
        /\ requests[k].token # EmptyDict
        /\ requests[k].now = marks[j]
        /\ requests[k].now # requests[k].state
        /\ requests[k].state = yielded[requests[k].no].state

(* ------------------------------------------------------------------ C16 *)
\* The stream reached from s by following parent_stream at most n times.
RECURSIVE Up(_, _)
Up(s, n) ==
    IF n = 0 \/ Registry[s].parent = "" THEN s ELSE Up(Registry[s].parent, n - 1)

\* Every nested stream of the registry names a stream of the registry as its
\* parent and reaches Accounts in fewer steps than there are streams.
RegistryRooted ==
    \A s \in StreamNames :
        Registry[s].parent # "" =>
            /\ Registry[s].parent \in StreamNames
            /\ Up(s, Cardinality(StreamNames) - 1) = "accounts"

\* The chain resolved so far: each stream is the parent_stream of the next,
\* no stream occurs twice, and once the resolution has ended its head has no
\* parent, is Accounts for a nested stream, and has given exactly one slice.
ChainResolved ==
    /\ \A i \in 2..Len(chain) : chain[i - 1].stream = Registry[chain[i].stream].parent
    /\ \A i, j \in 1..Len(chain) : i < j => chain[i].stream # chain[j].stream
    /\ pc # "resolve" =>
          /\ Registry[chain[1].stream].parent = ""
          /\ Len(chain) > 1 => chain[1].stream = "accounts"
          /\ Cardinality({j \in 1..Len(yielded) : yielded[j].level = 1}) = 1

ResolveLeft == IF pc = "resolve" THEN Cardinality(StreamNames) + 1 - Len(chain) ELSE 0

\* The pages the API may still answer: the page sequences are finite.
RequestsLeft == MaxRequests - Len(requests)

RECURSIVE RecordsLeftFrom(_)
RecordsLeftFrom(i) ==
    IF i > Len(chain) THEN 0
    ELSE (IF rd[i].fetched THEN Len(Records(i)) - rd[i].idx ELSE 0) + RecordsLeftFrom(i + 1)

RecordsLeft == RecordsLeftFrom(1)

Running == IF pc \in {"resolve", "run"} THEN 1 ELSE 0

\* Every step takes the run nearer to its end: in the order of resolution
\* steps left, pages left, records left on the pages read, and running.
Decreases ==
    \/ ResolveLeft' < ResolveLeft
    \/ /\ ResolveLeft' = ResolveLeft
       /\ \/ RequestsLeft' < RequestsLeft
          \/ /\ RequestsLeft' = RequestsLeft
             /\ \/ RecordsLeft' < RecordsLeft
                \/ RecordsLeft' = RecordsLeft /\ Running' < Running

Measured ==
    /\ Len(chain) <= Cardinality(StreamNames)
    /\ Len(requests) <= MaxRequests
    /\ \A i \in 1..Len(chain) : rd[i].idx <= Len(Records(i))

OnlyAccountsHasNoParent == \A s \in StreamNames : Registry[s].parent = "" => s = "accounts"

\* C16 as stated: the same, Accounts being the only stream without a parent.
C16_OnlyAccountsIsRoot ==
    /\ [](RegistryRooted /\ ChainResolved /\ Measured /\ OnlyAccountsHasNoParent)
    /\ [][Decreases]_vars

\* C16 amended: following parent_stream from any nested stream of the
\* registry reaches Accounts without a cycle; the resolution of a run's chain
\* ends at a stream without a parent (Accounts, or Alerts for itself), which
\* gives exactly one slice; and every step of a run decreases a measure that
\* cannot decrease for ever, so the run ends when the pages are finite.
C16_ChainTerminatesAtRoot ==
    /\ [](RegistryRooted /\ ChainResolved /\ Measured)
    /\ [][Decreases]_vars

\* ConferenceParticipants resolved Conferences and then Accounts, read all
\* three levels and ended.
C16_Witness ==
    /\ run = "conference_participants"
    /\ pc = "done"
    /\ Len(chain) = 3
    /\ chain[1].stream = "accounts"
    /\ \A i \in 1..3 : \E k \in 1..Len(requests) : requests[k].level = i

(* ------------------------------------------------------------------ C17 *)
\* Request k carries the incremental filter parameter of its stream.
Filtered(k) ==
    /\ DefOf(chain[requests[k].level]).incremental
    /\ FilterOf(requests[k]) \in DOMAIN requests[k].params

\* C17: the value sent under the incremental filter parameter is never
\* smaller than the value sent on an earlier request of the run.
C17_LowerBoundNeverDecreases ==
    \A j, k \in 1..Len(requests) :
        (j < k /\ requests[j].level = N /\ requests[k].level = N
               /\ Filtered(j) /\ Filtered(k))
            => ~TextLess(requests[k].params[FilterOf(requests[k])],
                         requests[j].params[FilterOf(requests[j])])

(* ------------------------------------------------------------------ C18 *)
\* The effective start of the slice of request k: the watermark of the state
\* the slice was started with, else the start_date of the stream object.
StartOfSlice(k) ==
    LET q == requests[k]
        watermark == GetText(yielded[q.no].state, DefOf(chain[q.level]).cursor_field)
    IN  IF watermark # NoText THEN watermark ELSE chain[q.level].start_date

\* C18: every request of a slice of an incremental stream with an effective
\* start, the first and every continuation request, carries the filter
\* parameter with the formatted effective start of the state the slice was
\* started with, also when the token has a key of the filter's name.
C18_FilterOnEveryPage ==
    \A k \in 1..Len(requests) :
        LET q == requests[k]
        IN  (DefOf(chain[q.level]).incremental /\ StartOfSlice(k) # NoText) =>
               /\ FilterOf(q) \in DOMAIN q.params
               /\ q.params[FilterOf(q)] = Format(chain[q.level], StartOfSlice(k))
               /\ DOMAIN q.params = {"PageSize", FilterOf(q)} \cup DOMAIN q.token

\* Alerts sent a continuation request whose token names StartDate, after its
\* state had advanced: the filter has the value of the first request.
C18_Witness ==
    \E j, k \in 1..Len(requests) :
        /\ j < k
        /\ requests[j].no = requests[k].no
        /\ requests[j].token = EmptyDict
        /\ Filtered(j) /\ Filtered(k)
        /\ FilterOf(requests[k]) \in DOMAIN requests[k].token
        /\ requests[k].now # requests[k].state
        /\ requests[k].params[FilterOf(requests[k])] = requests[j].params[FilterOf(requests[j])]

(* ------------------------------------------------------------------ C19 *)
\* The records taken at a level in the order of the level's slices, then of
\* the pages of a slice, then of the records of a page.
InParentOrder(level) ==
    Concat([j \in 1..Len(yielded) |->
               IF yielded[j].level # level THEN <<>>
               ELSE Concat([k \in 1..Len(requests) |->
                               IF requests[k].no = j /\ requests[k].ok
                               THEN TakenOf(k) ELSE <<>>])])

\* C19: the slices of a nested stream are the slices of the parent records
\* taken, in the order of the parent's slices, pages and records: each record
\* that qualifies gives its slice once, at its place, and a record that does
\* not qualify gives none.
C19_SliceOrder ==
    \A level \in 2..N :
        LET taken == InParentOrder(level - 1)
        IN  SlicesAt(level) =
                Concat([k \in 1..Len(taken) |-> slices_of(chain[level], taken[k])])

\* Addresses took four account records over two pages; the first and the last
\* gave a slice and the two between them, without an addresses locator, none.
C19_Witness ==
    /\ run = "addresses"
    /\ Len(InParentOrder(1)) = 4
    /\ SlicesAt(2) = <<[subresource_uri |-> Uris("AC1").addresses],
                       [subresource_uri |-> Uris("AC3").addresses]>>
    /\ ~HasAddresses(InParentOrder(1)[2])
    /\ ~HasAddresses(InParentOrder(1)[3])

====
